---- MODULE Spec2Model ----
(* Gconnect-chat: the message synchronisation and conversation-state protocol *)
(* of src/index.html, as a state machine over the shared realtime store and   *)
(* the signed-in clients.                                                     *)
(*                                                                            *)
(* Strings that the code sorts and joins (user ids, conversation ids) are     *)
(* sequences of UTF-16 code units, so that Array.prototype.sort() and join()  *)
(* are computed and not assumed.                                              *)
(*                                                                            *)
(* The store is the Firebase realtime database: every client sends its writes *)
(* over one connection (outq, first in first out), the server applies one     *)
(* write at a time, update() on a missing location creates it with the given  *)
(* fields, and every change of a watched path raises a 'value' event at each  *)
(* subscriber (inbox, tinbox). The store synchronises state: events a client  *)
(* has not yet processed coalesce, and the callback is handed the value the   *)
(* path holds when it runs. What the client wrote after an earlier snapshot   *)
(* is still in its outq, so stale views and stale writes are both possible.   *)
EXTENDS Integers, Sequences, FiniteSets, TLC

\* ---------------------------------------------------------------- bounds
MaxMsgs == 1    \* messages pushed in one behaviour
MaxOut == 2     \* the users wait while this many writes are not yet applied by the server
MaxView == 2    \* messages a conversation holds when the view is tried alone
MaxIdLen == 2   \* length of the user ids the resolver is tried on
MaxSel == 2     \* members selected in the group dialog

\* ---------------------------------------------------------------- strings
Underscore == 95
Chars == {Underscore, 97}
None == <<>>

Range(s) == {s[i] : i \in DOMAIN s}

RECURSIVE StrLess(_, _)
\* s < t, as Array.prototype.sort() compares two strings: by code units
StrLess(s, t) ==
  IF t = <<>> THEN FALSE
  ELSE IF s = <<>> THEN TRUE
  ELSE IF Head(s) # Head(t) THEN Head(s) < Head(t)
  ELSE StrLess(Tail(s), Tail(t))

RECURSIVE InsertSorted(_, _)
InsertFront(x, s) == <<x>> \o s
\* the place of x in a sorted array: after the elements that are not greater
InsertSorted(x, s) ==
  IF s = <<>> THEN <<x>>
  ELSE IF StrLess(Head(s), x) \/ Head(s) = x THEN <<Head(s)>> \o InsertSorted(x, Tail(s))
  ELSE <<x>> \o s

RECURSIVE SortStrings(_)
SortNoOp(s) == s
\* [...].sort() with no comparator, on an array of strings
SortStrings(s) == IF s = <<>> THEN <<>> ELSE InsertSorted(Head(s), SortStrings(Tail(s)))

RECURSIVE Join(_, _)
\* [...].join(sep)
Join(s, sep) ==
  IF s = <<>> THEN <<>>
  ELSE IF Len(s) = 1 THEN s[1]
  ELSE s[1] \o <<sep>> \o Join(Tail(s), sep)

\* chatUsers.map(u=>u.uid).sort().join('_')
SortJoin(uids) == Join(SortStrings(uids), Underscore)

\* openChat: chatUsers = [...users, self]; currentChatId = gid || sort-join
ChatIdOf(users, self, gid) == IF gid # None THEN gid ELSE SortJoin(Append(users, self))

\* createGroupBtn.onclick: members = [...selected, self]; groupId = sort-join
GroupIdOf(selected, self) == SortJoin(Append(selected, self))

\* loadMessages / sendBtn.onclick: the message path of the active conversation
MsgPath(grp, id) == [grp |-> grp, id |-> id]

\* ---------------------------------------------------------------- users
ua == <<97>>
ub == <<98>>
uc == <<99>>
Users == {ua, ub, uc}      \* the children of users/
Clients == {ua, ub}        \* the users with a running client
Texts == {"hi"}            \* message bodies

VARIABLES
  store,          \* chats/{id} and groups/{id}/chats: path -> key -> message
  typing,         \* typing/{conversationId}/{userId}
  pushed,         \* the references returned by push(): key -> sender, path, promise
  delIssued,      \* the path/key pairs delete-for-everyone was chosen for
  outq,           \* per client: writes sent and not yet applied by the server
  inbox,          \* per client: message path subscribed -> a 'value' event is pending
  tinbox,         \* per client: typing path subscribed -> a 'value' event is pending
  currentChatId, isGroup, typingTimeout,
  messagesEl,     \* per client: the children of #messages, [key, path]
  deleteMenu,     \* per client: #deleteMenu: shown, dataset key and path, in the document
  typingEl,       \* per client: the typing indicator is visible
  inputValue,     \* per client: messageInput.value
  inputDisabled,  \* per client: messageInput.disabled and sendBtn.disabled
  backShown,      \* per client: backBtn is displayed
  rUsers, rSelf, rId,  \* the resolver tried alone: arguments and result
  timers,         \* per client: the timers set by setTimeout and neither run nor cleared
  replyTo,        \* per client: the reply target chosen by a double click, or NoReply
  chatGid,        \* per client: the gid argument of the last openChat call
  online,         \* users/{uid}/online
  groups,         \* groups/{gid}: id, name, members (the chats child is in store)
  dirInbox,       \* per client: a 'value' event of users/ or of groups/ is pending
  chatList,       \* per client: the children of #chatList
  groupDialog,    \* per client: #groupModal, its inputs, the alert box, the promise of set()
  pmIn, pmOut     \* prepareMessages tried alone: its argument and its result

vars == <<store, typing, pushed, delIssued, outq, inbox, tinbox, currentChatId,
          isGroup, typingTimeout, messagesEl, deleteMenu, typingEl, inputValue,
          inputDisabled, backShown, rUsers, rSelf, rId, timers, replyTo, chatGid,
          online, groups, dirInbox, chatList, groupDialog, pmIn, pmOut>>

storeVars == <<store, typing, pushed, delIssued>>
netVars == <<outq, inbox, tinbox>>
chatVars == <<currentChatId, isGroup, chatGid>>
timerVars == <<typingTimeout, timers>>
domVars == <<messagesEl, deleteMenu, typingEl, inputValue, inputDisabled, backShown>>
resolverVars == <<rUsers, rSelf, rId>>
serverVars == <<pmIn, pmOut>>
listVars == <<online, groups, dirInbox, chatList, groupDialog>>

\* ---------------------------------------------------------------- store
EmptyDoc == << >>

\* the value at a path; a path never written reads as an empty snapshot
AtPath(st, p) == IF p \in DOMAIN st THEN st[p] ELSE EmptyDoc

\* the tree with the document at p replaced; an empty document is no node
SetPath(st, p, doc) ==
  IF DOMAIN doc = {}
  THEN [q \in DOMAIN st \ {p} |-> st[q]]
  ELSE [q \in DOMAIN st \cup {p} |-> IF q = p THEN doc ELSE st[q]]

\* ref.set(value) on a child
SetChild(doc, k, v) == [j \in DOMAIN doc \cup {k} |-> IF j = k THEN v ELSE doc[j]]

RemoveThread(doc, k) ==
  [j \in {i \in DOMAIN doc \ {k} :
            ~("replyTo" \in DOMAIN doc[i] /\ doc[i].replyTo.key = k)} |-> doc[j]]
\* ref.remove() on a child
RemoveChild(doc, k) == [j \in DOMAIN doc \ {k} |-> doc[j]]

\* ref.update({status: s}) on a child: merges into the child, creating it when missing
UpdateStatus(doc, k, s) ==
  IF k \in DOMAIN doc
  THEN [doc EXCEPT ![k] = [@ EXCEPT !.status = s]]
  ELSE SetChild(doc, k, [status |-> s])

RECURSIVE SortedKeys(_)
\* snap.forEach visits the children in key order (push keys order by insertion)
SortedKeys(S) ==
  IF S = {} THEN <<>>
  ELSE LET m == CHOOSE x \in S : \A y \in S : x <= y
       IN <<m>> \o SortedKeys(S \ {m})

RECURSIVE SumLen(_, _)
SumLen(q, S) ==
  IF S = {} THEN 0
  ELSE LET x == CHOOSE y \in S : TRUE IN Len(q[x]) + SumLen(q, S \ {x})

\* the number of writes in flight
InFlight == SumLen(outq, Clients)

\* the users act while fewer than MaxOut writes are in flight; the callbacks of the
\* program (snapshots, promises, timers) run whenever they are due
UserMayAct == InFlight < MaxOut

Write(op, path, key, val) == [op |-> op, path |-> path, key |-> key, val |-> val]

\* a write of typing/{id}/{user}
TypingWrite(id, u, flag) == [op |-> "typing", id |-> id, user |-> u, flag |-> flag]

\* the set() of groups/{gid} issued by user u
GroupWrite(node, u) == [op |-> "setgroup", gid |-> node.id, user |-> u, node |-> node]

\* ---------------------------------------------------------------- client
\* loadMessages: mine = (m.senderId === currentUser.uid)
Mine(m, c) == "senderId" \in DOMAIN m /\ m.senderId = c

NeedsSeenNoGate(m, c) == m.status # "Seen"
NeedsSeenOnlySent(m, c) == ~Mine(m, c) /\ m.status = "Sent"
\* loadMessages: if(!mine && m.status!=='Seen')
NeedsSeen(m, c) == ~Mine(m, c) /\ m.status # "Seen"

\* the keys a snapshot handler issues update({status:'Seen'}) for, in order
SeenKeys(snap, c) == SelectSeq(SortedKeys(DOMAIN snap), LAMBDA k : NeedsSeen(snap[k], c))

\* the value of a property the object does not have
Undefined == "undefined"

\* m.text and m.senderName, as the closure of ondblclick reads them
TextOf(m) == IF "text" \in DOMAIN m THEN m.text ELSE Undefined
SenderNameOf(m) == IF "senderName" \in DOMAIN m THEN m.senderName ELSE Undefined

\* the children loadMessages appends to #messages for one snapshot: dataset.key,
\* dataset.path, and the body and sender name the ondblclick closure holds
Rendered(snap, p) ==
  LET keys == SortedKeys(DOMAIN snap)
  IN [i \in 1..Len(keys) |->
        [key |-> keys[i], path |-> p, text |-> TextOf(snap[keys[i]]),
         senderName |-> SenderNameOf(snap[keys[i]])]]

HiddenMenu(m) == [m EXCEPT !.shown = FALSE]

\* document.addEventListener('click', ...): every click hides the delete menu
DocClick(c) == deleteMenu' = [deleteMenu EXCEPT ![c] = HiddenMenu(@)]

\* on('value'): a change of path p raises an event at every subscriber of p
Notify(box, p) ==
  [d \in Clients |-> [q \in DOMAIN box[d] |-> (q = p) \/ box[d][q]]]

\* a change under users/ or under groups/ raises an event at every signed-in
\* client: loadChats and loadGroups subscribe to the two roots
NotifyDir(box, root) == [d \in Clients |-> [box[d] EXCEPT ![root] = TRUE]]

\* ref.off(); ref.on('value', ...) on path p: the listeners of p are replaced by
\* one listener, which is first handed the current value; no other path is touched
Resubscribe(box, p) == [q \in DOMAIN box \cup {p} |-> (q = p) \/ box[q]]

\* ---------------------------------------------------------------- actions
\* openChat(users, gid), with loadMessages() and the typing subscription
OpenChat(c, users, gid) ==
  LET grp == Len(users) > 1
      id == ChatIdOf(users, c, gid)
      path == MsgPath(grp, id)
  IN /\ UserMayAct
     /\ isGroup' = [isGroup EXCEPT ![c] = grp]
     /\ currentChatId' = [currentChatId EXCEPT ![c] = id]
     /\ chatGid' = [chatGid EXCEPT ![c] = gid]
     /\ backShown' = [backShown EXCEPT ![c] = TRUE]
     /\ inputDisabled' = [inputDisabled EXCEPT ![c] = FALSE]
     /\ inbox' = [inbox EXCEPT ![c] = Resubscribe(@, path)]
     /\ tinbox' = [tinbox EXCEPT ![c] = Resubscribe(@, id)]
     /\ DocClick(c)
     /\ UNCHANGED <<storeVars, outq, timerVars, messagesEl, typingEl, inputValue,
                    resolverVars, replyTo, listVars, serverVars>>

\* div.onclick of a user item of the chat list: openChat([u])
OpenDirect(c) == \E u \in Users \ {c} : OpenChat(c, <<u>>, None)

\* backBtn.onclick
Back(c) ==
  /\ backShown[c]
  /\ UserMayAct
  /\ backShown' = [backShown EXCEPT ![c] = FALSE]
  /\ messagesEl' = [messagesEl EXCEPT ![c] = <<>>]
  /\ inputValue' = [inputValue EXCEPT ![c] = ""]
  /\ inputDisabled' = [inputDisabled EXCEPT ![c] = TRUE]
  /\ typingEl' = [typingEl EXCEPT ![c] = FALSE]
  /\ outq' = [outq EXCEPT ![c] = Append(@, TypingWrite(currentChatId[c], c, FALSE))]
  /\ DocClick(c)
  /\ UNCHANGED <<storeVars, inbox, tinbox, chatVars, timerVars, resolverVars, replyTo, listVars, serverVars>>

ClearNothing(n, live) == n
\* clearTimeout(typingTimeout): the timer typingTimeout refers to, if it is still
\* pending, is cancelled
ClearTimeout(n, live) == IF live THEN n - 1 ELSE n

\* the 'input' listener of messageInput
Input(c) ==
  /\ ~inputDisabled[c]
  /\ UserMayAct
  /\ \E t \in Texts : inputValue' = [inputValue EXCEPT ![c] = t]
  /\ outq' = [outq EXCEPT ![c] = Append(@, TypingWrite(currentChatId[c], c, TRUE))]
  /\ timers' = [timers EXCEPT ![c] = ClearTimeout(@, typingTimeout[c]) + 1]
  /\ typingTimeout' = [typingTimeout EXCEPT ![c] = TRUE]
  /\ UNCHANGED <<storeVars, inbox, tinbox, chatVars, messagesEl, deleteMenu, typingEl,
                 inputDisabled, backShown, resolverVars, replyTo, listVars, serverVars>>

\* the callback of typingTimeout: it reads currentChatId when it runs
TimerFire(c) ==
  /\ typingTimeout[c]
  /\ outq' = [outq EXCEPT ![c] = Append(@, TypingWrite(currentChatId[c], c, FALSE))]
  /\ timers' = [timers EXCEPT ![c] = @ - 1]
  /\ typingTimeout' = [typingTimeout EXCEPT ![c] = FALSE]
  /\ UNCHANGED <<storeVars, inbox, tinbox, chatVars, domVars, resolverVars, replyTo, listVars, serverVars>>

\* user.displayName of the account with this uid
NameOf(u) == CASE u = ua -> "Ann" [] u = ub -> "Ben" [] OTHER -> "Cy"

\* replyTo = null
NoReply == << >>

\* sendBtn.onclick: msg = {senderId, senderName, text, timestamp, status:'Sent'},
\* and msg.replyTo = replyTo when a reply target is chosen
NewMessage(c, txt, now, reply) ==
  LET msg == [senderId |-> c, senderName |-> NameOf(c), text |-> txt,
              timestamp |-> now, status |-> "Sent"]
  IN IF reply = NoReply THEN msg ELSE [replyTo |-> reply] @@ msg

\* a message appended earlier, with the status it has reached since
StoredMessage(c, txt, now, status) ==
  [NewMessage(c, txt, now, NoReply) EXCEPT !.status = status]

\* cancelReply()
CancelReply(c) == replyTo' = [replyTo EXCEPT ![c] = NoReply]

\* push(msg) throws, before anything is sent, when a property of msg is
\* undefined: the reply target of a double click on an entry without body
Pushable(reply) ==
  IF reply = NoReply THEN TRUE
  ELSE reply.text # Undefined /\ reply.senderName # Undefined

\* sendBtn.onclick, up to the push; the then-callback is AckDelivered
Send(c) ==
  /\ ~inputDisabled[c]
  /\ inputValue[c] # ""
  /\ Pushable(replyTo[c])
  /\ Len(pushed) < MaxMsgs
  /\ UserMayAct
  /\ LET path == MsgPath(isGroup[c], currentChatId[c])
         key == Len(pushed) + 1
         msg == NewMessage(c, inputValue[c], Len(pushed) + 1, replyTo[c])
     IN /\ pushed' = Append(pushed, [by |-> c, path |-> path, promise |-> "pending"])
        /\ outq' = [outq EXCEPT ![c] =
              @ \o <<Write("push", path, key, msg),
                     TypingWrite(currentChatId[c], c, FALSE)>>]
  /\ inputValue' = [inputValue EXCEPT ![c] = ""]
  /\ CancelReply(c)
  /\ DocClick(c)
  /\ UNCHANGED <<store, typing, delIssued, inbox, tinbox, chatVars, timerVars,
                 messagesEl, typingEl, inputDisabled, backShown, resolverVars, listVars, serverVars>>

\* db.ref('groups/'+gid).set(node): the node replaces everything stored at
\* groups/{gid}, its chats child included
SetGroupChats(st, gid) == SetPath(st, MsgPath(TRUE, gid), EmptyDoc)

\* the server commits the oldest write of client c and notifies the subscribers
\* of the path when its value changed; a committed push resolves its promise,
\* a committed set of a group node resolves the promise of the dialog
ServerApply(c) ==
  /\ outq[c] # <<>>
  /\ LET w == Head(outq[c])
     IN CASE w.op = "typing" ->
               LET doc == AtPath(typing, w.id)
                   new == SetChild(doc, w.user, w.flag)
               IN /\ typing' = SetPath(typing, w.id, new)
                  /\ tinbox' = IF new = doc THEN tinbox ELSE Notify(tinbox, w.id)
                  /\ UNCHANGED <<store, pushed, inbox, groups, dirInbox, groupDialog>>
          [] w.op = "setgroup" ->
               LET p == MsgPath(TRUE, w.gid)
                   st == SetGroupChats(store, w.gid)
                   gr == SetChild(groups, w.gid, w.node)
               IN /\ store' = st
                  /\ groups' = gr
                  /\ inbox' = IF st = store THEN inbox ELSE Notify(inbox, p)
                  /\ dirInbox' = IF st = store /\ gr = groups THEN dirInbox
                                 ELSE NotifyDir(dirInbox, "groups")
                  /\ groupDialog' = [groupDialog EXCEPT ![c].promise = "resolved"]
                  /\ UNCHANGED <<typing, tinbox, pushed>>
          [] OTHER ->
               LET doc == AtPath(store, w.path)
                   new == CASE w.op = "push" -> SetChild(doc, w.key, w.val)
                            [] w.op = "update" -> UpdateStatus(doc, w.key, w.val)
                            [] w.op = "remove" -> RemoveChild(doc, w.key)
               IN /\ store' = SetPath(store, w.path, new)
                  /\ inbox' = IF new = doc THEN inbox ELSE Notify(inbox, w.path)
                  /\ dirInbox' = IF new = doc \/ ~w.path.grp THEN dirInbox
                                 ELSE NotifyDir(dirInbox, "groups")
                  /\ pushed' = IF w.op = "push"
                               THEN [pushed EXCEPT ![w.key].promise = "resolved"]
                               ELSE pushed
                  /\ UNCHANGED <<typing, tinbox, groups, groupDialog>>
  /\ outq' = [outq EXCEPT ![c] = Tail(@)]
  /\ UNCHANGED <<delIssued, chatVars, timerVars, domVars, resolverVars, replyTo,
                 online, chatList, serverVars>>

\* the store refuses the push of client c (unreachable, permission denied):
\* nothing is stored and the promise is rejected
PushRejected(c) ==
  /\ outq[c] # <<>>
  /\ Head(outq[c]).op = "push"
  /\ pushed' = [pushed EXCEPT ![Head(outq[c]).key].promise = "rejected"]
  /\ outq' = [outq EXCEPT ![c] = Tail(@)]
  /\ UNCHANGED <<store, typing, delIssued, inbox, tinbox, chatVars, timerVars,
                 domVars, resolverVars, replyTo, listVars, serverVars>>

\* the write of ref.then(r => r.update({status:'Delivered'}))
AckWrite(k) == Write("update", pushed[k].path, k, "Delivered")

\* sendBtn.onclick: the then-callback of the push of key k
AckDelivered(k) ==
  /\ k \in DOMAIN pushed
  /\ pushed[k].promise = "resolved"
  /\ outq' = [outq EXCEPT ![pushed[k].by] = Append(@, AckWrite(k))]
  /\ pushed' = [pushed EXCEPT ![k].promise = "then-ran"]
  /\ UNCHANGED <<store, typing, delIssued, inbox, tinbox, chatVars, timerVars,
                 domVars, resolverVars, replyTo, listVars, serverVars>>

\* the 'value' callback of loadMessages for path p
DeliverMsgs(c, p) ==
  /\ p \in DOMAIN inbox[c]
  /\ inbox[c][p]
  /\ LET snap == AtPath(store, p)
         keys == SeenKeys(snap, c)
     IN /\ outq' = [outq EXCEPT ![c] =
              @ \o [i \in 1..Len(keys) |-> Write("update", p, keys[i], "Seen")]]
        /\ messagesEl' = [messagesEl EXCEPT ![c] = Rendered(snap, p)]
  /\ inbox' = [inbox EXCEPT ![c][p] = FALSE]
  /\ UNCHANGED <<storeVars, tinbox, chatVars, timerVars, deleteMenu, typingEl,
                 inputValue, inputDisabled, backShown, resolverVars, replyTo, listVars, serverVars>>

\* openChat: someone = Object.keys(d).some(uid => uid!==currentUser.uid && d[uid])
Someone(d, c) == \E uid \in DOMAIN d : uid # c /\ d[uid]

\* the 'value' callback of openChat for typing/{id}
DeliverTyping(c, id) ==
  /\ id \in DOMAIN tinbox[c]
  /\ tinbox[c][id]
  /\ typingEl' = [typingEl EXCEPT ![c] = Someone(AtPath(typing, id), c)]
  /\ tinbox' = [tinbox EXCEPT ![c][id] = FALSE]
  /\ UNCHANGED <<storeVars, outq, inbox, chatVars, timerVars, messagesEl,
                 deleteMenu, inputValue, inputDisabled, backShown, resolverVars, replyTo, listVars, serverVars>>

\* the 'contextmenu' listener of the i-th message element: showDeleteMenu
ShowDeleteMenu(c, i) ==
  /\ i \in DOMAIN messagesEl[c]
  /\ deleteMenu' = [deleteMenu EXCEPT ![c] =
        [@ EXCEPT !.shown = TRUE, !.key = messagesEl[c][i].key,
                  !.path = messagesEl[c][i].path]]
  /\ UNCHANGED <<storeVars, netVars, chatVars, timerVars, messagesEl, typingEl,
                 inputValue, inputDisabled, backShown, resolverVars, replyTo, listVars, serverVars>>

\* a click anywhere else in the document
ClickAway(c) ==
  /\ deleteMenu[c].shown
  /\ DocClick(c)
  /\ UNCHANGED <<storeVars, netVars, chatVars, timerVars, messagesEl, typingEl,
                 inputValue, inputDisabled, backShown, resolverVars, replyTo, listVars, serverVars>>

\* the indexes of the children of #messages with data-key = k
Matches(els, k) == {i \in DOMAIN els : els[i].key = k}

RemoveAll(els, k) == SelectSeq(els, LAMBDA e : FALSE)
\* document.querySelector('[data-key="k"]').remove() when a message matches:
\* the first match in document order is removed
RemoveFirst(els, k) ==
  LET i == CHOOSE j \in Matches(els, k) : \A h \in Matches(els, k) : j <= h
  IN SubSeq(els, 1, i - 1) \o SubSeq(els, i + 1, Len(els))

\* delForMe.onclick: #messages precedes #deleteMenu in the document, and
\* #deleteMenu carries data-key itself (showDeleteMenu sets its dataset.key)
DelForMe(c) ==
  /\ deleteMenu[c].shown
  /\ deleteMenu[c].inDoc
  /\ IF Matches(messagesEl[c], deleteMenu[c].key) # {}
     THEN /\ messagesEl' = [messagesEl EXCEPT ![c] = RemoveFirst(@, deleteMenu[c].key)]
          /\ deleteMenu' = [deleteMenu EXCEPT ![c] = HiddenMenu(@)]
     ELSE /\ messagesEl' = messagesEl
          /\ deleteMenu' = [deleteMenu EXCEPT ![c] = [HiddenMenu(@) EXCEPT !.inDoc = FALSE]]
  /\ UNCHANGED <<storeVars, netVars, chatVars, timerVars, typingEl, inputValue,
                 inputDisabled, backShown, resolverVars, replyTo, listVars, serverVars>>

\* div.ondblclick of the i-th message element: handleReplyClick(m, key), with
\* the m of the snapshot the element was rendered from; the two clicks of the
\* double click reach the document listener
HandleReplyClick(c, i) ==
  /\ i \in DOMAIN messagesEl[c]
  /\ replyTo' = [replyTo EXCEPT ![c] =
        [key |-> messagesEl[c][i].key, text |-> messagesEl[c][i].text,
         senderName |-> messagesEl[c][i].senderName]]
  /\ DocClick(c)
  /\ UNCHANGED <<storeVars, netVars, chatVars, timerVars, messagesEl, typingEl,
                 inputValue, inputDisabled, backShown, resolverVars, listVars, serverVars>>

\* the close button of #replyPreview, displayed once handleReplyClick has run
\* to its end: cancelReply()
CloseReply(c) ==
  /\ replyTo[c] # NoReply
  /\ Pushable(replyTo[c])
  /\ CancelReply(c)
  /\ DocClick(c)
  /\ UNCHANGED <<storeVars, netVars, chatVars, timerVars, messagesEl, typingEl,
                 inputValue, inputDisabled, backShown, resolverVars, listVars, serverVars>>

\* delForAll.onclick
DelForAll(c) ==
  /\ deleteMenu[c].shown
  /\ deleteMenu[c].inDoc
  /\ UserMayAct
  /\ outq' = [outq EXCEPT ![c] =
        Append(@, Write("remove", deleteMenu[c].path, deleteMenu[c].key, FALSE))]
  /\ delIssued' = delIssued \cup {[path |-> deleteMenu[c].path, key |-> deleteMenu[c].key]}
  /\ DocClick(c)
  /\ UNCHANGED <<store, typing, pushed, inbox, tinbox, chatVars, timerVars,
                 messagesEl, typingEl, inputValue, inputDisabled, backShown, resolverVars, replyTo, listVars, serverVars>>

\* ---------------------------------------------------------------- chat list
RECURSIVE KeyOrder(_)
\* snap.forEach and Object.entries visit string keys in the order of the keys
KeyOrder(S) ==
  IF S = {} THEN <<>>
  ELSE LET m == CHOOSE x \in S : \A y \in S \ {x} : StrLess(x, y)
       IN <<m>> \o KeyOrder(S \ {m})

UserItem(u) == [kind |-> "user", id |-> u, members |-> {}]

\* a .group-item: its onclick closure holds the group node it was rendered from
GroupItem(g) == [kind |-> "group", id |-> g.id, members |-> DOMAIN g.members]

\* loadChats: the user items of one snapshot of users/, the local user left out
UserItems(c) ==
  LET ids == KeyOrder(Users \ {c}) IN [i \in 1..Len(ids) |-> UserItem(ids[i])]

\* loadGroups: if(!g.members || !(currentUser.uid in g.members)) return
Visible(g, c) == c \in DOMAIN g.members

\* loadGroups: the group items of one snapshot of groups/
GroupItems(gr, c) ==
  LET ids == SelectSeq(KeyOrder(DOMAIN gr), LAMBDA id : Visible(gr[id], c))
  IN [i \in 1..Len(ids) |-> GroupItem(gr[ids[i]])]

\* the 'value' callback of loadChats: chatList.innerHTML = '' empties the whole
\* list, group items included, and the user items are appended
DeliverUsers(c) ==
  /\ dirInbox[c].users
  /\ chatList' = [chatList EXCEPT ![c] = UserItems(c)]
  /\ dirInbox' = [dirInbox EXCEPT ![c].users = FALSE]
  /\ UNCHANGED <<storeVars, netVars, chatVars, timerVars, domVars, resolverVars,
                 replyTo, online, groups, groupDialog, serverVars>>

\* the 'value' callback of loadGroups: the group items are removed and the
\* groups the local user is a member of are appended
DeliverGroups(c) ==
  /\ dirInbox[c].groups
  /\ chatList' = [chatList EXCEPT ![c] =
        SelectSeq(@, LAMBDA e : e.kind # "group") \o GroupItems(groups, c)]
  /\ dirInbox' = [dirInbox EXCEPT ![c].groups = FALSE]
  /\ UNCHANGED <<storeVars, netVars, chatVars, timerVars, domVars, resolverVars,
                 replyTo, online, groups, groupDialog, serverVars>>

\* another account signs in (users/{uid} is set with online true) or leaves
\* (beforeunload sets online false): users/ changes
Presence(u) ==
  /\ online' = [online EXCEPT ![u] = ~@]
  /\ dirInbox' = NotifyDir(dirInbox, "users")
  /\ UNCHANGED <<storeVars, netVars, chatVars, timerVars, domVars, resolverVars,
                 replyTo, groups, chatList, groupDialog, serverVars>>

\* div.onclick of the i-th item of the chat list, a user item: openChat([u])
OpenUserItem(c, i) ==
  /\ i \in DOMAIN chatList[c]
  /\ chatList[c][i].kind = "user"
  /\ OpenChat(c, <<chatList[c][i].id>>, None)

\* div.onclick of the i-th item of the chat list, a group item:
\* users = the members of g but the local user; openChat(users, g.id)
OpenGroupItem(c, i) ==
  /\ i \in DOMAIN chatList[c]
  /\ chatList[c][i].kind = "group"
  /\ OpenChat(c, KeyOrder(chatList[c][i].members \ {c}), chatList[c][i].id)

\* ---------------------------------------------------------------- group dialog
Space == 32
GroupNames == {<<Space>>, <<103>>}     \* the names typed: a blank, "g"

RECURSIVE TrimLeft(_)
TrimLeft(s) == IF s # <<>> /\ Head(s) = Space THEN TrimLeft(Tail(s)) ELSE s

RECURSIVE TrimRight(_)
TrimRight(s) ==
  IF s # <<>> /\ s[Len(s)] = Space THEN TrimRight(SubSeq(s, 1, Len(s) - 1)) ELSE s

TrimNothing(s) == s
\* String.prototype.trim()
Trim(s) == TrimRight(TrimLeft(s))

\* groupBtn.onclick: openGroupModal, with the snapshot of users/ it reads once
OpenGroupModal(c) ==
  /\ ~groupDialog[c].active
  /\ groupDialog' = [groupDialog EXCEPT ![c] =
        [@ EXCEPT !.active = TRUE, !.name = <<>>, !.checked = {}]]
  /\ DocClick(c)
  /\ UNCHANGED <<storeVars, netVars, chatVars, timerVars, messagesEl, typingEl,
                 inputValue, inputDisabled, backShown, resolverVars, replyTo,
                 online, groups, dirInbox, chatList, serverVars>>

\* the user types the group name
TypeGroupName(c) ==
  /\ groupDialog[c].active
  /\ \E n \in GroupNames : groupDialog' = [groupDialog EXCEPT ![c].name = n]
  /\ UNCHANGED <<storeVars, netVars, chatVars, timerVars, domVars, resolverVars,
                 replyTo, online, groups, dirInbox, chatList, serverVars>>

\* a click on the checkbox of user u in #memberList
ToggleMember(c, u) ==
  /\ groupDialog[c].active
  /\ groupDialog' = [groupDialog EXCEPT ![c].checked =
        IF u \in @ THEN @ \ {u} ELSE @ \cup {u}]
  /\ DocClick(c)
  /\ UNCHANGED <<storeVars, netVars, chatVars, timerVars, messagesEl, typingEl,
                 inputValue, inputDisabled, backShown, resolverVars, replyTo,
                 online, groups, dirInbox, chatList, serverVars>>

\* createGroupBtn.onclick: the node it sets at groups/{groupId}
GroupNode(name, selected, c) ==
  [id |-> GroupIdOf(selected, c), name |-> name,
   members |-> [u \in Range(selected) \cup {c} |-> NameOf(u)]]

\* createGroupBtn.onclick, up to the set(); the then-callback is GroupCreated
CreateGroup(c) ==
  /\ groupDialog[c].active
  /\ groupDialog[c].alert = "none"
  /\ groupDialog[c].promise = "none"
  /\ UserMayAct
  /\ LET name == Trim(groupDialog[c].name)
         selected == SelectSeq(KeyOrder(Users \ {c}),
                               LAMBDA u : u \in groupDialog[c].checked)
         node == GroupNode(name, selected, c)
     IN IF name = <<>>
        THEN /\ groupDialog' = [groupDialog EXCEPT ![c].alert = "name"]
             /\ outq' = outq
        ELSE IF Len(selected) < 1
        THEN /\ groupDialog' = [groupDialog EXCEPT ![c].alert = "members"]
             /\ outq' = outq
        ELSE /\ groupDialog' = [groupDialog EXCEPT ![c].promise = "pending"]
             /\ outq' = [outq EXCEPT ![c] = Append(@, GroupWrite(node, c))]
  /\ DocClick(c)
  /\ UNCHANGED <<storeVars, inbox, tinbox, chatVars, timerVars, messagesEl, typingEl,
                 inputValue, inputDisabled, backShown, resolverVars, replyTo,
                 online, groups, dirInbox, chatList, serverVars>>

\* the user closes the alert box
DismissAlert(c) ==
  /\ groupDialog[c].alert # "none"
  /\ groupDialog' = [groupDialog EXCEPT ![c].alert = "none"]
  /\ UNCHANGED <<storeVars, netVars, chatVars, timerVars, domVars, resolverVars,
                 replyTo, online, groups, dirInbox, chatList, serverVars>>

\* createGroupBtn.onclick: the then-callback of set(): closeGroupModal() and
\* loadGroups(), whose new listener is handed the value of groups/
GroupCreated(c) ==
  /\ groupDialog[c].promise = "resolved"
  /\ groupDialog' = [groupDialog EXCEPT ![c] =
        [@ EXCEPT !.active = FALSE, !.promise = "none"]]
  /\ dirInbox' = [dirInbox EXCEPT ![c].groups = TRUE]
  /\ UNCHANGED <<storeVars, netVars, chatVars, timerVars, domVars, resolverVars,
                 replyTo, online, groups, chatList, serverVars>>

\* ---------------------------------------------------------------- protocol
\* #groupModal is not active, no alert box is open, no set() is awaited
ClosedDialog == [active |-> FALSE, name |-> <<>>, checked |-> {}, alert |-> "none",
                 promise |-> "none"]

NoMenu == [shown |-> FALSE, key |-> 0, path |-> MsgPath(FALSE, None), inDoc |-> TRUE]

\* the resolver's variables while the protocol runs
ResolverIdle == rUsers = <<>> /\ rSelf = None /\ rId = None

\* prepareMessages is not called
ServerIdle == pmIn = <<>> /\ pmOut = <<>>

\* auth.onAuthStateChanged has run at every client: users/{uid} is set with
\* online true, loadChats and loadGroups have subscribed and the first events
\* of the two roots are due; no group exists, no reply target is chosen
SignedIn ==
  /\ replyTo = [c \in Clients |-> NoReply]
  /\ online = [u \in Users |-> u \in Clients]
  /\ groups = EmptyDoc
  /\ dirInbox = [c \in Clients |-> [users |-> TRUE, groups |-> TRUE]]
  /\ chatList = [c \in Clients |-> <<>>]
  /\ groupDialog = [c \in Clients |-> ClosedDialog]

\* every client has signed in; no chat is open
ProtocolInit ==
  /\ store = EmptyDoc
  /\ typing = EmptyDoc
  /\ pushed = <<>>
  /\ delIssued = {}
  /\ outq = [c \in Clients |-> <<>>]
  /\ inbox = [c \in Clients |-> EmptyDoc]
  /\ tinbox = [c \in Clients |-> EmptyDoc]
  /\ currentChatId = [c \in Clients |-> None]
  /\ isGroup = [c \in Clients |-> FALSE]
  /\ typingTimeout = [c \in Clients |-> FALSE]
  /\ messagesEl = [c \in Clients |-> <<>>]
  /\ deleteMenu = [c \in Clients |-> NoMenu]
  /\ typingEl = [c \in Clients |-> FALSE]
  /\ inputValue = [c \in Clients |-> ""]
  /\ inputDisabled = [c \in Clients |-> TRUE]
  /\ backShown = [c \in Clients |-> FALSE]
  /\ timers = [c \in Clients |-> 0]
  /\ chatGid = [c \in Clients |-> None]
  /\ SignedIn

Init == ProtocolInit /\ ResolverIdle /\ ServerIdle

\* ---- the message lifecycle: ua sends to ub in the conversation of the two
OpenPeer(c) == \E u \in Clients \ {c} : OpenChat(c, <<u>>, None)

NextLifecycle ==
  \/ \E c \in Clients : OpenPeer(c)
  \/ Input(ua)
  \/ TimerFire(ua)
  \/ Send(ua)
  \/ \E c \in Clients : ServerApply(c)
  \/ PushRejected(ua)
  \/ \E k \in 1..MaxMsgs : AckDelivered(k)
  \/ \E c \in Clients : \E p \in DOMAIN inbox[c] : DeliverMsgs(c, p)
  \/ \E c \in Clients : \E id \in DOMAIN tinbox[c] : DeliverTyping(c, id)

SpecLifecycle == Init /\ [][NextLifecycle]_vars

\* the store applies every write sent to it, and the client runs every callback
\* that is due (a 'value' event, a resolved promise)
FairDelivery ==
  /\ \A c \in Clients : WF_vars(ServerApply(c))
  /\ \A c \in Clients : WF_vars(\E p \in DOMAIN inbox[c] : DeliverMsgs(c, p))
  /\ WF_vars(\E k \in 1..MaxMsgs : AckDelivered(k))

\* ---- the lifecycle under fair delivery, while every push is accepted and
\* within the idle period of the typing timer; the events of the typing paths,
\* which reach the typing indicator only, are left pending
NextLive ==
  \/ \E c \in Clients : OpenPeer(c)
  \/ Input(ua)
  \/ Send(ua)
  \/ \E c \in Clients : ServerApply(c)
  \/ \E k \in 1..MaxMsgs : AckDelivered(k)
  \/ \E c \in Clients : \E p \in DOMAIN inbox[c] : DeliverMsgs(c, p)

SpecLive == Init /\ [][NextLive]_vars /\ FairDelivery

\* ---- deletion: the lifecycle, and ub uses the delete menu
NextDelete ==
  \/ \E c \in Clients : OpenPeer(c)
  \/ Input(ua)
  \/ Send(ua)
  \/ \E c \in Clients : ServerApply(c)
  \/ \E k \in 1..MaxMsgs : AckDelivered(k)
  \/ \E c \in Clients : \E p \in DOMAIN inbox[c] : DeliverMsgs(c, p)
  \/ \E c \in Clients : \E id \in DOMAIN tinbox[c] : DeliverTyping(c, id)
  \/ \E i \in DOMAIN messagesEl[ub] : ShowDeleteMenu(ub, i)
  \/ ClickAway(ub)
  \/ DelForMe(ub)
  \/ DelForAll(ub)

SpecDelete == Init /\ [][NextDelete]_vars

\* ---- switching: ua moves between its conversations with ub and with uc
NextSwitch ==
  \/ OpenDirect(ua)
  \/ Back(ua)
  \/ Input(ua)
  \/ TimerFire(ua)
  \/ Send(ua)
  \/ ServerApply(ua)
  \/ \E k \in 1..MaxMsgs : AckDelivered(k)
  \/ \E p \in DOMAIN inbox[ua] : DeliverMsgs(ua, p)
  \/ \E id \in DOMAIN tinbox[ua] : DeliverTyping(ua, id)

SpecSwitch == Init /\ [][NextSwitch]_vars

\* ---- the view: ua and ub have just opened their conversation, which holds
\* messages ua sent before, acknowledged and possibly seen; ub uses the delete menu
PeerId == SortJoin(<<ua, ub>>)

InitView ==
  /\ \E n \in 1..MaxView :
       \E senders \in [1..n -> {ua}] :
         \E statuses \in [1..n -> {"Delivered", "Seen"}] :
           /\ store = [p \in {MsgPath(FALSE, PeerId)} |->
                 [k \in 1..n |-> StoredMessage(senders[k], "hi", k, statuses[k])]]
           /\ pushed = [k \in 1..n |-> [by |-> senders[k], path |-> MsgPath(FALSE, PeerId),
                                        promise |-> "then-ran"]]
           /\ typing = [id \in {PeerId} |-> [u \in Range(senders) |-> FALSE]]
  /\ delIssued = {}
  /\ outq = [c \in Clients |-> <<>>]
  /\ inbox = [c \in Clients |-> [p \in {MsgPath(FALSE, PeerId)} |-> TRUE]]
  /\ tinbox = [c \in Clients |-> [id \in {PeerId} |-> FALSE]]
  /\ currentChatId = [c \in Clients |-> PeerId]
  /\ isGroup = [c \in Clients |-> FALSE]
  /\ typingTimeout = [c \in Clients |-> FALSE]
  /\ messagesEl = [c \in Clients |-> <<>>]
  /\ deleteMenu = [c \in Clients |-> NoMenu]
  /\ typingEl = [c \in Clients |-> FALSE]
  /\ inputValue = [c \in Clients |-> ""]
  /\ inputDisabled = [c \in Clients |-> FALSE]
  /\ backShown = [c \in Clients |-> TRUE]
  /\ timers = [c \in Clients |-> 0]
  /\ chatGid = [c \in Clients |-> None]
  /\ SignedIn
  /\ ResolverIdle
  /\ ServerIdle

NextView ==
  \/ \E c \in Clients : ServerApply(c)
  \/ \E c \in Clients : \E p \in DOMAIN inbox[c] : DeliverMsgs(c, p)
  \/ \E i \in DOMAIN messagesEl[ub] : ShowDeleteMenu(ub, i)
  \/ ClickAway(ub)
  \/ DelForMe(ub)
  \/ DelForAll(ub)

SpecView == InitView /\ [][NextView]_vars

\* ---- hiding: ub deletes messages for itself and closes the menu in no other way
NextHide ==
  \/ \E c \in Clients : ServerApply(c)
  \/ \E c \in Clients : \E p \in DOMAIN inbox[c] : DeliverMsgs(c, p)
  \/ \E i \in DOMAIN messagesEl[ub] : ShowDeleteMenu(ub, i)
  \/ DelForMe(ub)

SpecHide == InitView /\ [][NextHide]_vars

\* ---- the delete menu of ub while ua deletes for everyone
NextMenuRace ==
  \/ \E c \in Clients : ServerApply(c)
  \/ \E c \in Clients : \E p \in DOMAIN inbox[c] : DeliverMsgs(c, p)
  \/ \E i \in DOMAIN messagesEl[ub] : ShowDeleteMenu(ub, i)
  \/ ClickAway(ub)
  \/ DelForMe(ub)
  \/ \E i \in DOMAIN messagesEl[ua] : ShowDeleteMenu(ua, i)
  \/ DelForAll(ua)

SpecMenuRace == InitView /\ [][NextMenuRace]_vars

\* ---- leaving: ua sends in its conversation with ub, while ub opens that
\* conversation, leaves it by the back button or opens another one; within the
\* idle period of the typing timer, the events of the typing paths left pending
NextLeave ==
  \/ OpenPeer(ua)
  \/ Input(ua)
  \/ Send(ua)
  \/ OpenDirect(ub)
  \/ Back(ub)
  \/ \E c \in Clients : ServerApply(c)
  \/ \E k \in 1..MaxMsgs : AckDelivered(k)
  \/ \E c \in Clients : \E p \in DOMAIN inbox[c] : DeliverMsgs(c, p)

SpecLeave == Init /\ [][NextLeave]_vars

\* ---- typing: ub types in its conversation with ua, while ua moves between
\* its conversations with ub and with uc
NextTyping ==
  \/ OpenDirect(ua)
  \/ OpenPeer(ub)
  \/ Input(ub)
  \/ TimerFire(ub)
  \/ \E c \in Clients : ServerApply(c)
  \/ \E c \in Clients : \E p \in DOMAIN inbox[c] : DeliverMsgs(c, p)
  \/ \E c \in Clients : \E id \in DOMAIN tinbox[c] : DeliverTyping(c, id)

SpecTyping == Init /\ [][NextTyping]_vars

\* ---- groups: ua creates groups in the dialog and opens them from its chat
\* list, ub sees them in its own; uc signs in and leaves
NextGroups ==
  \/ OpenGroupModal(ua)
  \/ TypeGroupName(ua)
  \/ \E u \in Users \ {ua} : ToggleMember(ua, u)
  \/ CreateGroup(ua)
  \/ DismissAlert(ua)
  \/ GroupCreated(ua)
  \/ Presence(uc)
  \/ \E c \in Clients : DeliverUsers(c)
  \/ \E c \in Clients : DeliverGroups(c)
  \/ \E c \in Clients : ServerApply(c)

SpecGroups == Init /\ [][NextGroups]_vars

\* ---- group chats: ua has created groups with ub, and with ub and uc, before;
\* every client has rendered its chat list; ua opens conversations from its
\* list and sends
GroupSelections == {<<ub>>, <<ub, uc>>}

GroupName == <<103>>

InitGroupChat ==
  /\ store = EmptyDoc
  /\ typing = EmptyDoc
  /\ pushed = <<>>
  /\ delIssued = {}
  /\ outq = [c \in Clients |-> <<>>]
  /\ inbox = [c \in Clients |-> EmptyDoc]
  /\ tinbox = [c \in Clients |-> EmptyDoc]
  /\ currentChatId = [c \in Clients |-> None]
  /\ isGroup = [c \in Clients |-> FALSE]
  /\ typingTimeout = [c \in Clients |-> FALSE]
  /\ messagesEl = [c \in Clients |-> <<>>]
  /\ deleteMenu = [c \in Clients |-> NoMenu]
  /\ typingEl = [c \in Clients |-> FALSE]
  /\ inputValue = [c \in Clients |-> ""]
  /\ inputDisabled = [c \in Clients |-> TRUE]
  /\ backShown = [c \in Clients |-> FALSE]
  /\ timers = [c \in Clients |-> 0]
  /\ chatGid = [c \in Clients |-> None]
  /\ replyTo = [c \in Clients |-> NoReply]
  /\ online = [u \in Users |-> u \in Clients]
  /\ \E sels \in SUBSET GroupSelections :
        /\ sels # {}
        /\ groups = [gid \in {GroupIdOf(sel, ua) : sel \in sels} |->
                       LET sel == CHOOSE x \in sels : GroupIdOf(x, ua) = gid
                       IN GroupNode(GroupName, sel, ua)]
  /\ dirInbox = [c \in Clients |-> [users |-> FALSE, groups |-> FALSE]]
  /\ chatList = [c \in Clients |-> UserItems(c) \o GroupItems(groups, c)]
  /\ groupDialog = [c \in Clients |-> ClosedDialog]
  /\ ResolverIdle
  /\ ServerIdle

NextGroupChat ==
  \/ \E i \in DOMAIN chatList[ua] : OpenGroupItem(ua, i)
  \/ \E i \in DOMAIN chatList[ua] : OpenUserItem(ua, i)
  \/ Input(ua)
  \/ Send(ua)
  \/ \E c \in Clients : ServerApply(c)
  \/ \E k \in 1..MaxMsgs : AckDelivered(k)
  \/ \E p \in DOMAIN inbox[ua] : DeliverMsgs(ua, p)
  \/ \E c \in Clients : DeliverGroups(c)

SpecGroupChat == InitGroupChat /\ [][NextGroupChat]_vars

\* ---- creating a group again: the group of ua, ub and uc exists and holds
\* messages ua sent before; ua has just opened it from its chat list and uses
\* the group dialog
TrioId == GroupIdOf(<<ub, uc>>, ua)

InitRegroup ==
  /\ \E n \in 1..MaxView : \E statuses \in [1..n -> {"Delivered", "Seen"}] :
        /\ store = [p \in {MsgPath(TRUE, TrioId)} |->
                      [k \in 1..n |-> StoredMessage(ua, "hi", k, statuses[k])]]
        /\ pushed = [k \in 1..n |-> [by |-> ua, path |-> MsgPath(TRUE, TrioId),
                                     promise |-> "then-ran"]]
  /\ typing = EmptyDoc
  /\ delIssued = {}
  /\ outq = [c \in Clients |-> <<>>]
  /\ inbox = [c \in Clients |-> IF c = ua THEN [p \in {MsgPath(TRUE, TrioId)} |-> TRUE]
                                         ELSE EmptyDoc]
  /\ tinbox = [c \in Clients |-> IF c = ua THEN [id \in {TrioId} |-> FALSE] ELSE EmptyDoc]
  /\ currentChatId = [c \in Clients |-> IF c = ua THEN TrioId ELSE None]
  /\ isGroup = [c \in Clients |-> c = ua]
  /\ chatGid = [c \in Clients |-> IF c = ua THEN TrioId ELSE None]
  /\ typingTimeout = [c \in Clients |-> FALSE]
  /\ timers = [c \in Clients |-> 0]
  /\ messagesEl = [c \in Clients |-> <<>>]
  /\ deleteMenu = [c \in Clients |-> NoMenu]
  /\ typingEl = [c \in Clients |-> FALSE]
  /\ inputValue = [c \in Clients |-> ""]
  /\ inputDisabled = [c \in Clients |-> c # ua]
  /\ backShown = [c \in Clients |-> c = ua]
  /\ replyTo = [c \in Clients |-> NoReply]
  /\ online = [u \in Users |-> u \in Clients]
  /\ groups = [gid \in {TrioId} |-> GroupNode(GroupName, <<ub, uc>>, ua)]
  /\ dirInbox = [c \in Clients |-> [users |-> FALSE, groups |-> FALSE]]
  /\ chatList = [c \in Clients |-> UserItems(c) \o GroupItems(groups, c)]
  /\ groupDialog = [c \in Clients |-> ClosedDialog]
  /\ ResolverIdle
  /\ ServerIdle

NextRegroup ==
  \/ OpenGroupModal(ua)
  \/ TypeGroupName(ua)
  \/ \E u \in Users \ {ua} : ToggleMember(ua, u)
  \/ CreateGroup(ua)
  \/ DismissAlert(ua)
  \/ GroupCreated(ua)
  \/ \E c \in Clients : ServerApply(c)
  \/ \E c \in Clients : \E p \in DOMAIN inbox[c] : DeliverMsgs(c, p)
  \/ \E c \in Clients : DeliverGroups(c)

SpecRegroup == InitRegroup /\ [][NextRegroup]_vars

\* ---- replies: the conversation of ua and ub, open at both, holds one message
\* of ua (key 0), appended before the two signed in; ub has typed its answer
\* and the idle timer has run; ub replies to the message, ua deletes it
PreviewLen == 50

RECURSIVE Stars(_)
\* a body of n characters
Stars(n) == IF n = 0 THEN "" ELSE "*" \o Stars(n - 1)

\* bodies shorter than, as long as and longer than the preview
Bodies == {"hi", Stars(PreviewLen), Stars(PreviewLen + 1)}

\* String.prototype.slice(0, n)
Slice(txt, n) == SubSeq(txt, 1, IF Len(txt) < n THEN Len(txt) ELSE n)

InitReply ==
  /\ \E body \in Bodies : \E status \in {"Delivered", "Seen"} :
        store = [p \in {MsgPath(FALSE, PeerId)} |->
                   [k \in {0} |-> StoredMessage(ua, body, 0, status)]]
  /\ pushed = <<>>
  /\ typing = [id \in {PeerId} |-> [u \in {ub} |-> FALSE]]
  /\ delIssued = {}
  /\ outq = [c \in Clients |-> <<>>]
  /\ inbox = [c \in Clients |-> [p \in {MsgPath(FALSE, PeerId)} |-> TRUE]]
  /\ tinbox = [c \in Clients |-> [id \in {PeerId} |-> FALSE]]
  /\ currentChatId = [c \in Clients |-> PeerId]
  /\ isGroup = [c \in Clients |-> FALSE]
  /\ typingTimeout = [c \in Clients |-> FALSE]
  /\ messagesEl = [c \in Clients |-> <<>>]
  /\ deleteMenu = [c \in Clients |-> NoMenu]
  /\ typingEl = [c \in Clients |-> FALSE]
  /\ inputValue = [c \in Clients |-> IF c = ub THEN "hi" ELSE ""]
  /\ inputDisabled = [c \in Clients |-> FALSE]
  /\ backShown = [c \in Clients |-> TRUE]
  /\ timers = [c \in Clients |-> 0]
  /\ chatGid = [c \in Clients |-> None]
  /\ SignedIn
  /\ ResolverIdle
  /\ ServerIdle

NextReply ==
  \/ \E c \in Clients : ServerApply(c)
  \/ \E c \in Clients : \E p \in DOMAIN inbox[c] : DeliverMsgs(c, p)
  \/ \E i \in DOMAIN messagesEl[ub] : messagesEl[ub][i].key = 0 /\ HandleReplyClick(ub, i)
  \/ CloseReply(ub)
  \/ Send(ub)
  \/ \E k \in 1..MaxMsgs : AckDelivered(k)
  \/ \E i \in DOMAIN messagesEl[ua] : messagesEl[ua][i].key = 0 /\ ShowDeleteMenu(ua, i)
  \/ ClickAway(ua)
  \/ DelForAll(ua)

SpecReply == InitReply /\ [][NextReply]_vars

\* ---- replying and switching: ub, in its conversation with ua, chooses the
\* message of ua as reply target, opens conversations from the chat list and
\* sends what it has typed
NextReplySwitch ==
  \/ \E c \in Clients : ServerApply(c)
  \/ \E c \in Clients : \E p \in DOMAIN inbox[c] : DeliverMsgs(c, p)
  \/ \E i \in DOMAIN messagesEl[ub] : HandleReplyClick(ub, i)
  \/ CloseReply(ub)
  \/ OpenDirect(ub)
  \/ Send(ub)
  \/ \E k \in 1..MaxMsgs : AckDelivered(k)

SpecReplySwitch == InitReply /\ [][NextReplySwitch]_vars

\* ---- the resolver alone: the id derivations of openChat and of createGroup,
\* on every list of distinct user ids and every local user id not in the list
Ids == UNION {[1..n -> Chars] : n \in 1..MaxIdLen}

\* the lists of the elements of S, each once
Orderings(S) == {s \in [1..Cardinality(S) -> S] : \A i, j \in DOMAIN s : s[i] = s[j] => i = j}

InitResolver ==
  /\ ProtocolInit
  /\ rSelf \in Ids
  /\ \E n \in 1..MaxSel : \E S \in SUBSET (Ids \ {rSelf}) :
        Cardinality(S) = n /\ rUsers \in Orderings(S)
  /\ rId = None
  /\ ServerIdle

\* openChat([u]): the id of the direct conversation with the one user listed
ResolveDirect ==
  /\ rId = None
  /\ Len(rUsers) = 1
  /\ rId' = ChatIdOf(rUsers, rSelf, None)
  /\ UNCHANGED <<storeVars, netVars, chatVars, timerVars, domVars, rUsers, rSelf, replyTo, listVars, serverVars>>

\* createGroupBtn.onclick: the id of the group of the users selected
ResolveGroup ==
  /\ rId = None
  /\ rId' = GroupIdOf(rUsers, rSelf)
  /\ UNCHANGED <<storeVars, netVars, chatVars, timerVars, domVars, rUsers, rSelf, replyTo, listVars, serverVars>>

NextResolver == ResolveDirect \/ ResolveGroup

SpecResolver == InitResolver /\ [][NextResolver]_vars

\* ---------------------------------------------------------------- server
\* server.js: const MAX_HISTORY = 20
MAX_HISTORY == 20
MaxExtra == 2    \* the messages a history tried is longer than MAX_HISTORY by, at most
MaxSystem == 2   \* the system messages in a history tried, at most

\* a message of the request body, and the message prepareMessages puts in front
Msg(role) == [role |-> role, content |-> "given"]
DefaultSystem == [role |-> "system", content |-> "DEFAULT_SYSTEM_INSTRUCTION"]

IsSystem(m) == m.role = "system"

\* Array.prototype.slice(-n): the last n elements; slice(-0) is slice(0)
SliceLast(s, n) ==
  IF n = 0 \/ n >= Len(s) THEN s ELSE SubSeq(s, Len(s) - n + 1, Len(s))

\* the second half of prepareMessages: trim to the last MAX_HISTORY messages
TrimHistory(msgs) ==
  IF Len(msgs) > MAX_HISTORY
  THEN IF IsSystem(msgs[1])
       THEN LET keep == IF MAX_HISTORY > 1 THEN MAX_HISTORY ELSE 1
            IN <<msgs[1]>> \o SliceLast(msgs, keep - 1)
       ELSE SliceLast(msgs, MAX_HISTORY)
  ELSE msgs

\* prepareMessages(incomingMessages), on an array
prepareMessages(incoming) ==
  LET hasSystem == \E i \in DOMAIN incoming : IsSystem(incoming[i])
      msgs == IF hasSystem THEN incoming ELSE <<DefaultSystem>> \o incoming
  IN TrimHistory(msgs)

RECURSIVE Places(_, _)
\* the sets of up to m places of a history of n messages
Places(n, m) ==
  IF m = 0 THEN {{}}
  ELSE Places(n, m - 1) \cup {P \cup {i} : P \in Places(n, m - 1), i \in 1..n}

\* the histories tried: every length up to MAX_HISTORY + MaxExtra, with system
\* messages at up to MaxSystem places and user messages elsewhere
Histories ==
  UNION {{[i \in 1..n |-> IF i \in P THEN Msg("system") ELSE Msg("user")] :
            P \in Places(n, MaxSystem)} :
         n \in 0..(MAX_HISTORY + MaxExtra)}

InitServer ==
  /\ ProtocolInit
  /\ ResolverIdle
  /\ pmIn \in Histories
  /\ pmOut = <<>>

\* the request handler calls prepareMessages on the messages of the body
PrepareMessages ==
  /\ pmOut = <<>>
  /\ pmOut' = prepareMessages(pmIn)
  /\ UNCHANGED <<storeVars, netVars, chatVars, timerVars, domVars, resolverVars, replyTo,
                 listVars, pmIn>>

NextServer == PrepareMessages

SpecServer == InitServer /\ [][NextServer]_vars

\* ---------------------------------------------------------------- claims
\* the message path of the conversation of ua and ub
PeerPath == MsgPath(FALSE, SortJoin(<<ua, ub>>))

\* C1: message status is monotone under every interleaving: once the stored
\* status of a message key is Seen, no later write makes it Delivered or Sent.
C1_StatusMonotone ==
  [][\A p \in DOMAIN store : \A k \in DOMAIN store[p] :
       (store[p][k].status = "Seen" /\ p \in DOMAIN store' /\ k \in DOMAIN store'[p])
          => store'[p][k].status = "Seen"]_vars

\* C8: the snapshot handler of a client issues no status update for a message
\* whose senderId is the local user id, whatever the status of that message:
\* every write a run of the handler adds is for a message of another sender.
C8_MineGate ==
  [][\A c \in Clients : \A p \in DOMAIN inbox[c] :
       (inbox[c][p] /\ p \in DOMAIN inbox'[c] /\ ~inbox'[c][p] /\ Len(outq'[c]) >= Len(outq[c]))
          => \A i \in (Len(outq[c]) + 1)..Len(outq'[c]) :
                (outq'[c][i].op = "update" /\ outq'[c][i].path = p)
                   => LET m == AtPath(store, p)[outq'[c][i].key]
                      IN ~("senderId" \in DOMAIN m /\ m.senderId = c)]_vars

\* C8 witness: ua has processed a snapshot that holds its own message, not yet
\* Seen, and has no status write in flight, while ub has issued Seen for it
C8_Witness ==
  /\ PeerPath \in DOMAIN inbox[ua] /\ ~inbox[ua][PeerPath]
  /\ 1 \in DOMAIN AtPath(store, PeerPath)
  /\ Mine(store[PeerPath][1], ua)
  /\ store[PeerPath][1].status = "Sent"
  /\ messagesEl[ua] = Rendered(store[PeerPath], PeerPath)
  /\ outq[ua] = <<>>
  /\ outq[ub] = <<Write("update", PeerPath, 1, "Seen")>>

\* C2: after a client has switched its active conversation, it holds no live
\* subscription on the message path or the typing path of the conversation it
\* left: its subscriptions are those of the active conversation alone.
C2_OnlyActiveSubscribed ==
  \A c \in Clients :
    /\ DOMAIN inbox[c] \subseteq {MsgPath(isGroup[c], currentChatId[c])}
    /\ DOMAIN tinbox[c] \subseteq {currentChatId[c]}

\* every write is applied, every promise callback has run and every 'value'
\* event is processed
Quiet ==
  /\ InFlight = 0
  /\ \A k \in DOMAIN pushed : pushed[k].promise \in {"then-ran", "rejected"}
  /\ \A c \in Clients : \A p \in DOMAIN inbox[c] : ~inbox[c][p]

\* C3: delete-for-everyone of key k removes it for all participants: once the
\* remove and the writes in flight are applied and the notifications processed,
\* the store has no entry under k and no view holds k.
C3_DeletedEverywhere ==
  Quiet => \A d \in delIssued :
             /\ d.key \notin DOMAIN AtPath(store, d.path)
             /\ \A c \in Clients : \A i \in DOMAIN messagesEl[c] :
                   ~(messagesEl[c][i].key = d.key /\ messagesEl[c][i].path = d.path)

\* C5: typing auto-clear: when no idle timer is pending and no write is in
\* flight (the user has stopped typing and the idle period is over), no typing
\* flag is left true, whatever the user did besides typing.
C5_TypingClears ==
  (InFlight = 0 /\ \A c \in Clients : ~typingTimeout[c])
     => \A id \in DOMAIN typing : \A u \in DOMAIN typing[id] : ~typing[id][u]

\* C9: the sender's client issues, for a key it pushed, the Delivered update
\* only, only after the store has confirmed the push, and at most once.
C9_SenderWritesDeliveredOnce ==
  \A c \in Clients : \A i \in DOMAIN outq[c] :
    (outq[c][i].op = "update" /\ pushed[outq[c][i].key].by = c)
       => /\ outq[c][i].val = "Delivered"
          /\ pushed[outq[c][i].key].promise = "then-ran"
          /\ \A j \in DOMAIN outq[c] :
               (outq[c][j].op = "update" /\ outq[c][j] = outq[c][i]) => j = i

\* a step in which the shown delete menu of c closes and, with it, the view of c
\* changes or the menu leaves the document: the steps of delete-for-me
DelForMeStep(c) ==
  /\ deleteMenu[c].shown /\ deleteMenu[c].inDoc
  /\ ~deleteMenu'[c].shown
  /\ messagesEl'[c] # messagesEl[c] \/ ~deleteMenu'[c].inDoc

\* C4: delete-for-me of key k by client c issues no store write: the store and
\* every other client's view are unchanged, and exactly k leaves the view of c.
C4_DelForMeLocal ==
  [][\A c \in Clients : DelForMeStep(c) =>
        /\ store' = store /\ typing' = typing /\ outq' = outq
        /\ \A d \in Clients \ {c} : messagesEl'[d] = messagesEl[d]
        /\ messagesEl'[c] = SelectSeq(messagesEl[c], LAMBDA e : e.key # deleteMenu[c].key)]_vars

\* C4 witness: ub has deleted key 1 for itself out of a view of two messages;
\* key 2 is still in its view, key 1 is still stored and still in the view of ua
C4_Witness ==
  /\ deleteMenu[ub].key = 1 /\ ~deleteMenu[ub].shown /\ deleteMenu[ub].inDoc
  /\ delIssued = {}
  /\ DOMAIN AtPath(store, PeerPath) = {1, 2}
  /\ Len(messagesEl[ub]) = 1
  /\ messagesEl[ub][1].key = 2 /\ messagesEl[ub][1].path = PeerPath
  /\ messagesEl[ua] = Rendered(store[PeerPath], PeerPath)
  /\ ~inbox[ub][PeerPath]

\* C6: direct conversation ids are symmetric: the id a client computes for the
\* chat with another user is the id that user's client computes for the chat
\* with it.
C6_DirectSymmetric ==
  (rId # None /\ Len(rUsers) = 1) => rId = ChatIdOf(<<rSelf>>, rUsers[1], None)

\* C6 witness: a direct id was resolved where the local id sorts first, though
\* openChat lists it last
C6_Witness ==
  /\ Len(rUsers) = 1
  /\ StrLess(rSelf, rUsers[1])
  /\ rId = rSelf \o <<Underscore>> \o rUsers[1]

\* C7: group ids are order-independent: the id depends only on the set of the
\* selected member ids united with the creator's id, whoever of them creates
\* the group and in whatever order the others are listed.
C7_GroupIdOfSet ==
  rId # None =>
    \A self \in Range(rUsers) \cup {rSelf} :
      \A sel \in Orderings((Range(rUsers) \cup {rSelf}) \ {self}) :
        GroupIdOf(sel, self) = rId

\* C7 witness: a group id was resolved for two or more selected members listed
\* out of order, by a creator whose id sorts before the first of them
C7_Witness ==
  /\ rId # None
  /\ Len(rUsers) >= 2
  /\ StrLess(rUsers[2], rUsers[1])
  /\ StrLess(rSelf, rUsers[1])

\* message key k is in the store, under the path it was pushed to
Stored(k) == k \in DOMAIN pushed /\ k \in DOMAIN AtPath(store, pushed[k].path)

\* a client other than the sender of k is subscribed to the path of k
RecipientSubscribed(k) ==
  k \in DOMAIN pushed /\ \E c \in Clients \ {pushed[k].by} : pushed[k].path \in DOMAIN inbox[c]

StoredSeen(k) == Stored(k) /\ store[pushed[k].path][k].status = "Seen"

\* C10: eventual Seen: a message that is appended and stays stored, while a
\* recipient client stays subscribed to its path, is eventually Seen in the
\* store and remains Seen, under fair delivery of writes and notifications.
C10_EventuallySeen ==
  \A k \in 1..MaxMsgs :
    <>[](Stored(k) /\ RecipientSubscribed(k)) => <>[]StoredSeen(k)

\* C10 witness: the message of ua is Seen in the store, ua has issued its
\* Delivered update and every write is applied, with ub subscribed
C10_Witness ==
  /\ StoredSeen(1)
  /\ pushed[1].promise = "then-ran"
  /\ InFlight = 0
  /\ RecipientSubscribed(1)

\* C11: when the append of a send fails, the text the user typed is still in
\* the message input: at the step that rejects the push of a client, the input
\* of that client holds the body of the refused message.
C11_FailedSendKeepsInput ==
  [][\A k \in DOMAIN pushed :
       (pushed[k].promise = "pending" /\ pushed'[k].promise = "rejected")
          => inputValue'[pushed[k].by] = Head(outq[pushed[k].by]).val.text]_vars

\* the stop-typing write of client c under its active conversation
StopTyping(c) == TypingWrite(currentChatId[c], c, FALSE)

\* C20: typing debounce: at most one idle timer is pending per client at any
\* time, and a timer runs only as the single pending one, the one set by the
\* last input event: its run issues exactly one write of false and leaves no
\* timer pending, so a burst of input events ends in one timer-driven write.
C20_TypingDebounce ==
  /\ [](\A c \in Clients : timers[c] <= 1)
  /\ [][\A c \in Clients : timers'[c] < timers[c] =>
          /\ timers[c] = 1 /\ timers'[c] = 0
          /\ outq'[c] = Append(outq[c], StopTyping(c))]_vars

\* C20 witness: ua made a burst of two input events and the one timer has run:
\* two writes of true and one write of false are in flight, no timer is pending
C20_Witness ==
  /\ timers[ua] = 0 /\ ~typingTimeout[ua]
  /\ Len(outq[ua]) = 3
  /\ outq[ua][1].op = "typing" /\ outq[ua][1].flag
  /\ outq[ua][2].op = "typing" /\ outq[ua][2].flag
  /\ outq[ua][3] = StopTyping(ua)

\* the fields sendBtn.onclick gives a message besides its status
AppendedFields == {"senderId", "senderName", "text", "timestamp"}

\* C17: message immutability: every entry present in the store carries the
\* sender id, sender name, body and timestamp it was appended with: none of
\* them is missing, the sender is the client that pushed the key, and no step
\* changes one of them while the entry stays.
C17_MessageImmutable ==
  /\ [](\A p \in DOMAIN store : \A k \in DOMAIN store[p] :
          /\ AppendedFields \subseteq DOMAIN store[p][k]
          /\ (k \in DOMAIN pushed => store[p][k].senderId = pushed[k].by))
  /\ [][\A p \in DOMAIN store \cap DOMAIN store' :
          \A k \in DOMAIN store[p] \cap DOMAIN store'[p] :
            \A f \in AppendedFields \cap DOMAIN store[p][k] :
              f \in DOMAIN store'[p][k] /\ store'[p][k][f] = store[p][k][f]]_vars

\* C15: the replyRef stored with a reply holds the body of its target cut to
\* the preview length: its text is at most PreviewLen characters long and is a
\* prefix of the body of the target, while the target is stored.
C15_ReplyRefTruncated ==
  \A p \in DOMAIN store : \A k \in DOMAIN store[p] :
    "replyTo" \in DOMAIN store[p][k] =>
      LET ref == store[p][k].replyTo
      IN /\ Len(ref.text) <= PreviewLen
         /\ (ref.key \in DOMAIN store[p] /\ "text" \in DOMAIN store[p][ref.key])
               => Slice(store[p][ref.key].text, Len(ref.text)) = ref.text

\* the step applies a write addressed to key k of message path p
AppliedTo(p, k) ==
  \E c \in Clients :
    /\ outq[c] # <<>> /\ outq'[c] = Tail(outq[c])
    /\ Head(outq[c]).op \in {"push", "update", "remove"}
    /\ Head(outq[c]).path = p /\ Head(outq[c]).key = k

\* C16: the replyRef stored with a reply is unchanged by every operation on
\* its target: a step that applies a write to the target (a status update, the
\* remove of delete-for-everyone) leaves the reply in the store as it is.
C16_ReplyRefKept ==
  [][\A p \in DOMAIN store : \A r \in DOMAIN store[p] :
       ("replyTo" \in DOMAIN store[p][r] /\ AppliedTo(p, store[p][r].replyTo.key))
          => /\ p \in DOMAIN store' /\ r \in DOMAIN store'[p]
             /\ store'[p][r] = store[p][r]]_vars

\* C16 witness: the reply of ub to key 0 is stored with its replyRef, after
\* delete-for-everyone of key 0 was chosen and the remove applied
C16_Witness ==
  /\ [path |-> PeerPath, key |-> 0] \in delIssued
  /\ DOMAIN AtPath(store, PeerPath) = {1}
  /\ "replyTo" \in DOMAIN store[PeerPath][1]
  /\ store[PeerPath][1].replyTo = [key |-> 0, text |-> "hi", senderName |-> NameOf(ua)]
  /\ InFlight = 0

\* C18: typing aggregation: once every write is applied and a client with an
\* open conversation has processed every typing notification, its indicator
\* is shown if and only if, under the typing document of its active
\* conversation, some user id other than its own has a true flag.
C18_TypingAggregation ==
  \A c \in Clients :
    (InFlight = 0 /\ backShown[c] /\ \A id \in DOMAIN tinbox[c] : ~tinbox[c][id])
       => (typingEl[c] <=> Someone(AtPath(typing, currentChatId[c]), c))

\* the name typed in the dialog of c is empty or blank
BlankName(c) == \A i \in DOMAIN groupDialog[c].name : groupDialog[c].name[i] = Space

\* C13: createGroup with an empty or blank name, or with no other member
\* selected, fails validation: with such inputs no step of the client issues a
\* write of a group, and the step that refuses the click (the alert) leaves the
\* store and the writes in flight unchanged and the dialog open.
C13_InvalidGroupRefused ==
  [][\A c \in Clients :
       /\ (BlankName(c) \/ groupDialog[c].checked = {})
             => \A i \in DOMAIN outq'[c] :
                  i > Len(outq[c]) => outq'[c][i].op # "setgroup"
       /\ (groupDialog[c].alert = "none" /\ groupDialog'[c].alert # "none")
             => /\ BlankName(c) \/ groupDialog[c].checked = {}
                /\ store' = store /\ groups' = groups /\ outq' = outq
                /\ groupDialog'[c].active]_vars

\* C13 witness: ua clicked create with a blank name and a member checked: the
\* alert is open, the dialog is open, nothing was written
C13_Witness ==
  /\ groupDialog[ua].alert = "name"
  /\ groupDialog[ua].name = <<Space>>
  /\ groupDialog[ua].checked # {}
  /\ groupDialog[ua].active
  /\ groups = EmptyDoc /\ InFlight = 0

\* the chat list of c has an item of the group
ShowsGroup(c, gid) ==
  \E i \in DOMAIN chatList[c] : chatList[c][i].kind = "group" /\ chatList[c][i].id = gid

\* C14: group visibility: once a client has processed every notification of
\* users/ and of groups/, its chat list shows a group if and only if the local
\* user id is a key of the member mapping of that group in the store.
C14_GroupVisibility ==
  \A c \in Clients :
    (~dirInbox[c].users /\ ~dirInbox[c].groups)
       => \A gid \in DOMAIN groups :
            ShowsGroup(c, gid) <=> c \in DOMAIN groups[gid].members

\* C12: createGroup on a member set whose group id is in the store already
\* overwrites the name and the member mapping of that group only: the step
\* that applies its set() leaves the messages stored under the group and every
\* other path unchanged, and applying the same set() again changes nothing.
C12_CreateGroupIdempotent ==
  [][\A c \in Clients :
       (/\ outq[c] # <<>> /\ outq'[c] = Tail(outq[c])
        /\ Head(outq[c]).op = "setgroup"
        /\ Head(outq[c]).gid \in DOMAIN groups)
          => LET w == Head(outq[c])
             IN /\ store' = store
                /\ groups' = SetChild(groups, w.gid, w.node)
                /\ SetGroupChats(store', w.gid) = store'
                /\ SetChild(groups', w.gid, w.node) = groups']_vars

\* C19: path separation: a message sent while a conversation opened from the
\* group list is active is appended under groups/{groupId}/chats, and a message
\* sent in a conversation opened from a user item is appended under chats/{id}.
C19_PathSeparation ==
  [][Len(pushed') > Len(pushed) =>
       LET r == pushed'[Len(pushed')]
       IN r.path = MsgPath(chatGid[r.by] # None, currentChatId[r.by])]_vars

\* the participant sets a conversation id is derived from: the local user and
\* one to MaxSel others
ParticipantSets == {S \in SUBSET Ids : Cardinality(S) >= 2 /\ Cardinality(S) <= MaxSel + 1}

\* C21: conversation ids are collision-free: the id resolved for one set of
\* participant ids is the id of no other set of participant ids, in whatever
\* order that set is listed, also when ids contain the separator '_'.
C21_CollisionFree ==
  rId # None =>
    \A S \in ParticipantSets :
      S # Range(rUsers) \cup {rSelf} => \A sel \in Orderings(S) : SortJoin(sel) # rId

\* C22: the result of prepareMessages has at most MAX_HISTORY messages, its
\* first message has role system, and the default instruction is put in front
\* exactly when the input holds no system message.
C22_PreparedHistory ==
  pmOut # <<>> =>
    /\ Len(pmOut) <= MAX_HISTORY
    /\ IsSystem(pmOut[1])
    /\ (pmOut[1] = DefaultSystem) <=> (\A i \in DOMAIN pmIn : ~IsSystem(pmIn[i]))

\* client c has deleted message k for itself: where delete-for-me is the one
\* way the menu closes, the closed menu carries the key chosen last
DeletedForMe(c, k) ==
  /\ ~deleteMenu[c].shown /\ deleteMenu[c].inDoc
  /\ deleteMenu[c].key = k

\* C23: delete-for-me is lasting for the caller: after client c has deleted
\* message k for itself, the view of c has no element of k, whatever
\* notifications of the conversation's path c has processed since (the
\* conversation stays open throughout).
C23_DelForMeLasting ==
  \A c \in Clients : \A k \in 1..MaxView :
    DeletedForMe(c, k) => Matches(messagesEl[c], k) = {}

\* the message path of the active conversation of client c
ActivePath(c) == MsgPath(isGroup[c], currentChatId[c])

\* C24: the message view of a client is built from snapshots of the message
\* path of its active conversation only: a step in which the client processes
\* a notification of a path and its view changes is a step on the active path.
C24_ViewOfActiveOnly ==
  [][\A c \in Clients : \A p \in DOMAIN inbox[c] :
       (/\ inbox[c][p] /\ p \in DOMAIN inbox'[c] /\ ~inbox'[c][p]
        /\ messagesEl'[c] # messagesEl[c])
          => p = ActivePath(c)]_vars

\* C25: a client issues a Seen update for a message only while the
\* conversation that holds the message is its active, open conversation: a
\* Seen update a step adds to the writes of client c addresses the message
\* path of the active conversation of c, and c has not pressed back.
C25_SeenOnlyWhileActive ==
  [][\A c \in Clients : \A i \in (Len(outq[c]) + 1)..Len(outq'[c]) :
       (outq'[c][i].op = "update" /\ outq'[c][i].val = "Seen")
          => (backShown[c] /\ outq'[c][i].path = ActivePath(c))]_vars

\* the message path key k was appended under: the path of its push, or, for
\* the message stored from the start, the path of the conversation of ua and ub
HomePath(k) == IF k \in DOMAIN pushed THEN pushed[k].path ELSE PeerPath

\* C26: every message appended with a replyRef refers to a message of the
\* same conversation: the key of the replyRef is a key that was appended under
\* the message path the reply is appended under.
C26_ReplyInSameConversation ==
  [][Len(pushed') > Len(pushed) =>
       LET w == outq'[pushed'[Len(pushed')].by][Len(outq'[pushed'[Len(pushed')].by]) - 1]
       IN "replyTo" \in DOMAIN w.val => HomePath(w.val.replyTo.key) = w.path]_vars

\* the delete menu of c is shown for a key that has no element in the view of c
MenuOnMissingKey(c) ==
  /\ deleteMenu[c].shown /\ deleteMenu[c].inDoc
  /\ Matches(messagesEl[c], deleteMenu[c].key) = {}

====
